---- MODULE Spec2Model ----
(***************************************************************************)
(* A model of ICDA: the signature canister (batching, signing, pruning and *)
(* serving confirmations), the confirmation verifier of icda-core, the     *)
(* storage canister (chunk ingest and retention heap) and the client read  *)
(* and write paths.  Each component has its own specification: SpecSigner, *)
(* SpecStorage, SpecUpload, SpecRead, SpecSelect, SpecPush and SpecWrite.  *)
(*                                                                         *)
(* Hashes are symbolic and collision free.  A 32-byte value is a tuple: a  *)
(* digest d is <<d>>, the SHA-256 of the concatenation of two hashes l and *)
(* r is <<l, r>>, and the all-zero array is <<0>>.                         *)
(***************************************************************************)
EXTENDS Integers, Sequences, FiniteSets, TLC

(***************************************************************************)
(* Bounds of the model.                                                    *)
(***************************************************************************)
\* digests are 1..MaxDigest
MaxDigest == 12
\* insert_digest is not called once current_index has reached MaxIndex
MaxIndex == 4
\* update_config is accepted at most MaxConfigUpdates times
MaxConfigUpdates == 2
\* timestamps of blobs are 1..MaxTimestamp
MaxTimestamp == 2
\* save_blob is not called once a hasher would have taken more than MaxHashed bytes
MaxHashed == 4
\* the next index in a reply of a storage canister is in 1..MaxWindows
MaxWindows == 2
\* a task stops reading once it has assembled MaxReadLen bytes
MaxReadLen == 3
\* get_storage_canisters is called at most MaxSelections times
MaxSelections == 12
\* the storage constants, scaled down: the heap threshold (30240 in the
\* source), the chunk size in bytes (1 << 20 in the source) and the size of
\* a query response in bytes (2621440 in the source)
CANISTER_THRESHOLD == 2
CHUNK_SIZE == 2
QUERY_RESPONSE_SIZE == 2
\* the live time of a blob key, scaled down (7 days in nanoseconds in the source)
BLOB_LIVE_TIME == 7
\* push_blob_to_canisters is called at most MaxPushes times
MaxPushes == 2
\* a reupload task stops sending after MaxResend rejected calls
MaxResend == 2

(***************************************************************************)
(* Program constants.                                                      *)
(***************************************************************************)
CONFIRMATION_BATCH_SIZE == 12
CONFIRMATION_LIVE_TIME == 120961
\* total_leaves_count passed to MerkleProof::verify by icda-core
VERIFY_TOTAL_LEAVES == 6

Digests == 1..MaxDigest

\* values an owner may put in a Config through update_config
BatchSizes == {2, CONFIRMATION_BATCH_SIZE}
LiveTimes == {1, 2, CONFIRMATION_LIVE_TIME}

\* principals: the config owner, an allowlisted storage canister, anyone else
Owner == "owner"
DaCanister == "da_canister"
Stranger == "stranger"
Callers == {Owner, DaCanister, Stranger}

VARIABLES
    \* signature canister
    CONFIRMATION_CONFIG,   \* Config
    INDEX_MAP,             \* hex digest => batch index, CURRENT_INDEX_KEY => index
    BATCH_CONFIRMATION,    \* batch index => BatchConfirmation
    signTasks,             \* update_signature futures awaiting sign_with_ecdsa
    \* history of the signature canister
    fresh,                 \* the largest digest passed to insert_digest so far
    pruned,                \* digests whose batch was pruned, not inserted since
    sinceClosure,          \* digests placed since the most recent batch closure
    firstPlaced,           \* digest => the first batch index it was placed in
    placedAt,              \* digest => nodes.len() of the open batch before its push
    configUpdates,         \* number of accepted update_config calls so far
    \* storage canister
    DACONFIG,              \* Config
    BLOBS,                 \* hex digest => bytes
    TIMEHEAP,              \* StableMinHeap<BlobId>, as its array
    TEMP_DIGEST_STATE,     \* hex digest => Sha256 hasher, as the bytes it was fed
    notified,              \* digests sent to the signature canister's insert_digest
    \* history of the storage canister
    uploaded,              \* digest => chunk indices saved from generate_chunks
    popped,                \* the heap was popped during an upload
    \* client read path (get_blob_from_canisters)
    key,                   \* the BlobKey being read
    taskPc,                \* replica => position of its get_blob_from_canister
    taskBlob,              \* replica => bytes assembled so far
    taskNext,              \* replica => the next field of the last slice
    channel,               \* the mpsc channel, as the queue of sent blobs
    mainPc,                \* position of get_blob_from_canisters
    returned,              \* the blob get_blob_from_canisters returned
    \* history of the client read path
    verified,              \* the replicas whose task got Ok(blob), in that order
    \* client write path: get_storage_canisters
    canister_collection_index,  \* the value inside the Arc<Mutex<usize>>
    mutex,                 \* the task that holds the lock of the Mutex
    selPc,                 \* task => position in get_storage_canisters
    selections,            \* history: the rows read, in the order of the reads
    seed,                  \* history: the index ICDA::new stored
    \* client write path: push_chunks_to_canister of one replica task
    pushPc,                \* position of the task
    pushChunks,            \* the chunks of the blob being pushed
    pushNext,              \* position in pushChunks of the chunk being sent
    pushAttempt,           \* i of the re-upload loop
    backup,                \* file name => chunk, the files under backup/
    rpcFailed,             \* history: a save_blob call failed before the replica ran it
    \* client write path: push_blob_to_canisters over the replicas of a row
    writeKey,              \* the BlobKey push_blob_to_canisters returned
    writeTasks,            \* replica => the state of its push_chunks_to_canister
    sendLog,               \* history: replica => the save_blob calls of its task
    writeCall,             \* history: the blob and the timestamp of that call
    reupTasks              \* file name => the state of the reupload task of the file

signerVars == <<CONFIRMATION_CONFIG, INDEX_MAP, BATCH_CONFIRMATION, signTasks,
                fresh, pruned, sinceClosure, firstPlaced, placedAt,
                configUpdates>>

storageVars == <<DACONFIG, BLOBS, TIMEHEAP, TEMP_DIGEST_STATE, notified,
                 uploaded, popped>>

readVars == <<key, taskPc, taskBlob, taskNext, channel, mainPc, returned,
              verified>>

selectVars == <<canister_collection_index, mutex, selPc, selections, seed>>

pushVars == <<pushPc, pushChunks, pushNext, pushAttempt, backup, rpcFailed>>

writeVars == <<writeKey, writeTasks, sendLog, writeCall, reupTasks>>

clientVars == <<readVars, selectVars, pushVars, writeVars>>

vars == <<signerVars, storageVars, clientVars>>

(***************************************************************************)
(* Maps (StableBTreeMap).                                                  *)
(***************************************************************************)
MapInsert(m, k, v) == [x \in DOMAIN m \cup {k} |-> IF x = k THEN v ELSE m[x]]

MapRemove(m, ks) == [x \in DOMAIN m \ ks |-> m[x]]

EmptyMap == [x \in {} |-> 0]

SeqToSet(s) == {s[i] : i \in DOMAIN s}

(***************************************************************************)
(* rs_merkle, as the canister and the verifier use it: a tree over leaves  *)
(* that are already hashes, a proof for one leaf, and the root a proof     *)
(* yields for a claimed number of leaves.                                  *)
(***************************************************************************)
Leaf(d) == <<d>>

\* Sha256::concat_and_hash: a node without a right sibling is promoted as is
ConcatAndHash(left, right) == <<left, right>>

RECURSIVE Log2Ceil(_, _, _)
Log2Ceil(n, k, p) == IF p >= n THEN k ELSE Log2Ceil(n, k + 1, 2 * p)

\* utils::indices::tree_depth
TreeDepth(leaves_count) ==
    IF leaves_count = 1 THEN 1 ELSE Log2Ceil(leaves_count, 0, 1)

ParentLayer(layer) ==
    [i \in 1..((Len(layer) + 1) \div 2) |->
        IF 2 * i <= Len(layer)
        THEN ConcatAndHash(layer[2 * i - 1], layer[2 * i])
        ELSE layer[2 * i - 1]]

RECURSIVE BuildLayers(_, _)
BuildLayers(layer, depth) ==
    IF depth = 0 THEN <<layer>>
    ELSE <<layer>> \o BuildLayers(ParentLayer(layer), depth - 1)

\* MerkleTree::from_leaves: the layers, leaves first
MerkleTreeFromLeaves(nodes) ==
    BuildLayers([i \in 1..Len(nodes) |-> Leaf(nodes[i])], TreeDepth(Len(nodes)))

\* MerkleTree::root
MerkleRoot(nodes) ==
    LET layers == MerkleTreeFromLeaves(nodes)
    IN layers[Len(layers)][1]

RECURSIVE HelperNodes(_, _, _)
HelperNodes(layers, l, index) ==
    IF l > Len(layers) THEN <<>>
    ELSE LET sibling == IF index % 2 = 0 THEN index + 1 ELSE index - 1
             here == IF sibling < Len(layers[l])
                     THEN <<layers[l][sibling + 1]>> ELSE <<>>
         IN here \o HelperNodes(layers, l + 1, index \div 2)

\* MerkleTree::proof(&[leaf_index]).to_bytes(): the sibling hashes, leaves first
MerkleProofBytes(nodes, leaf_index) ==
    HelperNodes(MerkleTreeFromLeaves(nodes), 1, leaf_index)

\* MerkleProof::root for one leaf: ok = FALSE stands for the panic of
\* Vec::splice when the proof holds fewer hashes than the layers ask for
RECURSIVE ProofRoot(_, _, _, _, _)
ProofRoot(hashes, index, hash, depth, count) ==
    IF depth = 0 THEN [ok |-> TRUE, root |-> hash]
    ELSE LET uneven == count % 2 # 0
             need == ~(uneven /\ index = count - 1)
         IN IF need /\ hashes = <<>> THEN [ok |-> FALSE, root |-> hash]
            ELSE LET up == IF ~need THEN hash
                           ELSE IF index % 2 = 1
                                THEN ConcatAndHash(Head(hashes), hash)
                                ELSE ConcatAndHash(hash, Head(hashes))
                 IN ProofRoot(IF need THEN Tail(hashes) ELSE hashes,
                              index \div 2, up, depth - 1, (count + 1) \div 2)

\* MerkleProof::verify: None stands for the panic
MerkleProofVerify(proof_bytes, root, leaf_index, leaf_digest, total_leaves_count) ==
    LET r == ProofRoot(proof_bytes, leaf_index, Leaf(leaf_digest),
                       TreeDepth(total_leaves_count), total_leaves_count)
    IN IF ~r.ok THEN "Panic" ELSE IF r.root = root THEN "True" ELSE "False"

(***************************************************************************)
(* The threshold ECDSA service and hex.                                    *)
(***************************************************************************)
\* sign_with_ecdsa under the canister's key
EcdsaSign(message_hash) == [signed |-> message_hash]

\* secp.verify_ecdsa against the canister's public key
VerifyEcdsa(msg, sig) == sig = EcdsaSign(msg)

HexEncode(bytes) == [hex |-> bytes]

HexDecode(text) == text.hex

(***************************************************************************)
(* The signature canister.                                                 *)
(***************************************************************************)
CURRENT_INDEX_KEY == 0

None == <<>>

Some(x) == <<x>>

\* Config::default
ConfigDefault ==
    [confirmation_batch_size |-> CONFIRMATION_BATCH_SIZE,
     confirmation_live_time |-> CONFIRMATION_LIVE_TIME,
     da_canisters |-> {DaCanister},
     owner |-> Owner]

\* BatchConfirmation::default
\* a default batch that carries a signature
BatchConfirmationSigned ==
    [signature |-> Some(HexEncode(EcdsaSign(<<0>>))), root |-> <<0>>, nodes |-> <<>>]

BatchConfirmationDefault == [signature |-> None, root |-> <<0>>, nodes |-> <<>>]

check_owner(c) == c = CONFIRMATION_CONFIG.owner

\* a check that lets every caller insert
check_updater_any(c) == TRUE

check_updater(c) == c \in CONFIRMATION_CONFIG.da_canisters

\* index_map.get(CURRENT_INDEX_KEY).unwrap_or_default().0
CurrentIndex(index_map) ==
    IF CURRENT_INDEX_KEY \in DOMAIN index_map THEN index_map[CURRENT_INDEX_KEY] ELSE 0

\* nodes.iter().position(|&x| x == digest): zero based, -1 for None
RECURSIVE Position(_, _, _)
Position(nodes, digest, i) ==
    IF i > Len(nodes) THEN -1
    ELSE IF nodes[i] = digest THEN i - 1
    ELSE Position(nodes, digest, i + 1)

NoConfirmation ==
    [root |-> <<0>>,
     proof |-> [proof_bytes |-> <<>>, leaf_index |-> 0, leaf_digest |-> 0],
     signature |-> HexEncode(EcdsaSign(<<0>>))]

\* get_confirmation: status is Invalid, Pending, Confirmed, or Trap when the
\* unwrap of the batch panics; confirmation is meaningful when Confirmed
get_confirmation(digest) ==
    IF digest \notin DOMAIN INDEX_MAP \ {CURRENT_INDEX_KEY}
    THEN [status |-> "Invalid", confirmation |-> NoConfirmation]
    ELSE LET batch_index == INDEX_MAP[digest]
         IN IF batch_index \notin DOMAIN BATCH_CONFIRMATION
            THEN [status |-> "Trap", confirmation |-> NoConfirmation]
            ELSE LET batch_confirmation == BATCH_CONFIRMATION[batch_index]
                     leaf_index == Position(batch_confirmation.nodes, digest, 1)
                 IN IF batch_confirmation.signature = None
                    THEN [status |-> "Pending", confirmation |-> NoConfirmation]
                    ELSE IF leaf_index = -1
                    THEN [status |-> "Invalid", confirmation |-> NoConfirmation]
                    ELSE [status |-> "Confirmed",
                          confirmation |->
                            [root |-> batch_confirmation.root,
                             proof |-> [proof_bytes |->
                                            MerkleProofBytes(batch_confirmation.nodes,
                                                             leaf_index),
                                        leaf_index |-> leaf_index,
                                        leaf_digest |-> digest],
                             signature |-> batch_confirmation.signature[1]]]

\* SignatureCanister::verify_confirmation of icda-core
verify_confirmation(confirmation) ==
    IF ~VerifyEcdsa(confirmation.root, HexDecode(confirmation.signature))
    THEN "InvalidSignature"
    ELSE LET v == MerkleProofVerify(confirmation.proof.proof_bytes,
                                    confirmation.root,
                                    confirmation.proof.leaf_index,
                                    confirmation.proof.leaf_digest,
                                    VERIFY_TOTAL_LEAVES)
         IN IF v = "True" THEN "Valid"
            ELSE IF v = "False" THEN "InvalidProof" ELSE "Panic"

\* the batch index prune_expired_confirmation removes, -1 when it returns early
ExpiredBatchIndex(current_batch_index, confirmation_live_time) ==
    IF current_batch_index <= confirmation_live_time THEN -1
    ELSE current_batch_index - confirmation_live_time

\* a prune that removes the expired batch and keeps the index entries of its nodes
prune_keeps_index(index_map, batch_map, current_batch_index) ==
    LET expired_batch_index ==
            ExpiredBatchIndex(current_batch_index,
                              CONFIRMATION_CONFIG.confirmation_live_time)
    IN IF expired_batch_index = -1
       THEN [trap |-> FALSE, index_map |-> index_map, batch_map |-> batch_map,
             expired |-> {}]
       ELSE IF expired_batch_index \notin DOMAIN batch_map
       THEN [trap |-> TRUE, index_map |-> index_map, batch_map |-> batch_map,
             expired |-> {}]
       ELSE [trap |-> FALSE,
             index_map |-> index_map,
             batch_map |-> MapRemove(batch_map, {expired_batch_index}),
             expired |-> SeqToSet(batch_map[expired_batch_index].nodes)]

\* prune_expired_confirmation on the given maps: trap when the unwrap of the
\* expired batch panics
prune_expired_confirmation(index_map, batch_map, current_batch_index) ==
    LET expired_batch_index ==
            ExpiredBatchIndex(current_batch_index,
                              CONFIRMATION_CONFIG.confirmation_live_time)
    IN IF expired_batch_index = -1
       THEN [trap |-> FALSE, index_map |-> index_map, batch_map |-> batch_map,
             expired |-> {}]
       ELSE IF expired_batch_index \notin DOMAIN batch_map
       THEN [trap |-> TRUE, index_map |-> index_map, batch_map |-> batch_map,
             expired |-> {}]
       ELSE LET expired_node_keys == SeqToSet(batch_map[expired_batch_index].nodes)
            IN [trap |-> FALSE,
                index_map |-> MapRemove(index_map, expired_node_keys),
                batch_map |-> MapRemove(batch_map, {expired_batch_index}),
                expired |-> expired_node_keys]

\* the batch is full: nodes.len() % confirmation_batch_size == 0
BatchFull(nodes) == Len(nodes) % CONFIRMATION_CONFIG.confirmation_batch_size = 0

\* a closure that skips an index
NewCurrentIndexSkips(current_index) == current_index + 2

\* a closure that leaves the index where it is
NewCurrentIndexStays(current_index) == current_index

NewCurrentIndex(current_index) == current_index + 1

\* an update_signature that signs the root the batch was stored with
SignTaskStaleRoot(batch_index, batch_confirmation) ==
    [batch_index |-> batch_index, confirmation |-> batch_confirmation]

\* the part of update_signature that runs before the await of sign
SignTask(batch_index, batch_confirmation) ==
    [batch_index |-> batch_index,
     confirmation |-> [batch_confirmation EXCEPT
                          !.root = MerkleRoot(batch_confirmation.nodes)]]

\* batch_map.get(&current_index).unwrap_or_default()
OpenBatch(index_map, batch_map) ==
    IF CurrentIndex(index_map) \in DOMAIN batch_map
    THEN batch_map[CurrentIndex(index_map)]
    ELSE BatchConfirmationDefault

\* the body of insert_digest for a digest that is not indexed yet
InsertResult(digest) ==
    LET current_index == CurrentIndex(INDEX_MAP)
        index_map1 == MapInsert(INDEX_MAP, digest, current_index)
        old == OpenBatch(INDEX_MAP, BATCH_CONFIRMATION)
        batch_confirmation == [old EXCEPT !.nodes = Append(@, digest)]
        batch_map1 == MapInsert(BATCH_CONFIRMATION, current_index, batch_confirmation)
        p == prune_expired_confirmation(index_map1, batch_map1, current_index)
    IN IF ~BatchFull(batch_confirmation.nodes)
       THEN [trap |-> FALSE, closed |-> FALSE, index_map |-> index_map1,
             batch_map |-> batch_map1, spawned |-> {}, expired |-> {}]
       ELSE [trap |-> p.trap, closed |-> TRUE,
             index_map |-> MapInsert(p.index_map, CURRENT_INDEX_KEY,
                                     NewCurrentIndex(current_index)),
             batch_map |-> p.batch_map,
             spawned |-> {SignTask(current_index, batch_confirmation)},
             expired |-> p.expired]

SignerInit ==
    /\ CONFIRMATION_CONFIG = ConfigDefault
    /\ INDEX_MAP = EmptyMap
    /\ BATCH_CONFIRMATION = EmptyMap
    /\ signTasks = {}
    /\ fresh = 0
    /\ pruned = {}
    /\ sinceClosure = {}
    /\ firstPlaced = EmptyMap
    /\ placedAt = EmptyMap
    /\ configUpdates = 0

\* a trapped update call: the canister's state is rolled back
SignerTrap == UNCHANGED vars

\* insert_digest by a caller that is not an updater, whatever the digest
InsertDigestRejected(caller) ==
    /\ ~check_updater(caller)
    /\ SignerTrap

\* insert_digest of a digest that is already indexed
InsertDigestDuplicate(caller) ==
    /\ check_updater(caller)
    /\ \E digest \in Digests : digest \in DOMAIN INDEX_MAP
    /\ UNCHANGED vars

\* insert_digest of a digest that is not indexed
InsertDigestNew(caller, digest) ==
    /\ check_updater(caller)
    /\ digest \notin DOMAIN INDEX_MAP
    /\ CurrentIndex(INDEX_MAP) < MaxIndex
    /\ LET r == InsertResult(digest)
       IN IF r.trap THEN SignerTrap
          ELSE /\ fresh' = IF digest > fresh THEN digest ELSE fresh
               /\ INDEX_MAP' = r.index_map
               /\ BATCH_CONFIRMATION' = r.batch_map
               /\ signTasks' = signTasks \cup r.spawned
               /\ pruned' = (pruned \ {digest}) \cup r.expired
               /\ sinceClosure' = IF r.closed THEN {} ELSE sinceClosure \cup {digest}
               /\ firstPlaced' = IF digest \in DOMAIN firstPlaced THEN firstPlaced
                                 ELSE MapInsert(firstPlaced, digest,
                                                CurrentIndex(INDEX_MAP))
               /\ placedAt' = MapInsert(placedAt, digest,
                                        Len(OpenBatch(INDEX_MAP, BATCH_CONFIRMATION).nodes))
               /\ UNCHANGED <<CONFIRMATION_CONFIG, configUpdates,
                              storageVars, clientVars>>

\* insert_digest called by caller; digests are interchangeable: an unused
\* digest is always the next one
InsertDigestBy(caller) ==
    \/ InsertDigestRejected(caller)
    \/ InsertDigestDuplicate(caller)
    \/ \E digest \in 1..(IF fresh < MaxDigest THEN fresh + 1 ELSE MaxDigest) :
          InsertDigestNew(caller, digest)

InsertDigest == \E caller \in Callers : InsertDigestBy(caller)

\* update_config called by caller
SignerUpdateConfigBy(caller) ==
    \E size \in BatchSizes, live \in LiveTimes :
        /\ IF ~check_owner(caller) THEN SignerTrap
           ELSE /\ configUpdates < MaxConfigUpdates
                /\ configUpdates' = configUpdates + 1
                /\ CONFIRMATION_CONFIG' =
                      [CONFIRMATION_CONFIG EXCEPT !.confirmation_batch_size = size,
                                                  !.confirmation_live_time = live]
                /\ UNCHANGED <<INDEX_MAP, BATCH_CONFIRMATION, signTasks, fresh,
                               pruned, sinceClosure, firstPlaced, placedAt,
                               storageVars, clientVars>>

SignerUpdateConfig == \E caller \in Callers : SignerUpdateConfigBy(caller)

\* an update_signature that stores the snapshot without the signature
UnsignedConfirmation(confirmation) == confirmation

\* what update_signature stores once sign has returned Ok(signature)
SignedConfirmation(confirmation) ==
    [confirmation EXCEPT !.signature = Some(HexEncode(EcdsaSign(confirmation.root)))]

\* update_signature resumes with Ok(signature): the snapshot is stored
SignSucceededTask(task) ==
    /\ task \in signTasks
    /\ signTasks' = signTasks \ {task}
    /\ BATCH_CONFIRMATION' =
         MapInsert(BATCH_CONFIRMATION, task.batch_index,
                   SignedConfirmation(task.confirmation))
    /\ UNCHANGED <<CONFIRMATION_CONFIG, INDEX_MAP, fresh, pruned,
                   sinceClosure, firstPlaced, placedAt, configUpdates,
                   storageVars, clientVars>>

SignSucceeded == \E task \in signTasks : SignSucceededTask(task)

\* an Err branch that stores the snapshot with its root and no signature
FailedSignStoresSnapshot(batch_map, task) ==
    MapInsert(batch_map, task.batch_index, task.confirmation)

\* the batches after the Err branch of update_signature: the error is
\* printed and nothing is stored
FailedSignStores(batch_map, task) == batch_map

\* update_signature resumes with Err
SignFailed ==
    \E task \in signTasks :
        /\ signTasks' = signTasks \ {task}
        /\ BATCH_CONFIRMATION' = FailedSignStores(BATCH_CONFIRMATION, task)
        /\ UNCHANGED <<CONFIRMATION_CONFIG, INDEX_MAP,
                       fresh, pruned, sinceClosure, firstPlaced, placedAt,
                       configUpdates, storageVars, clientVars>>

SignerNext ==
    \/ InsertDigest
    \/ SignerUpdateConfig
    \/ SignSucceeded
    \/ SignFailed

(***************************************************************************)
(* Storage canister.  Bytes are small numbers, 0 is the byte of a          *)
(* zero-filled buffer; SHA-256 is symbolic and collision free.             *)
(***************************************************************************)
Sha256(bytes) == [sha256 |-> bytes]

\* the blobs a client uploads: one of two chunks, two of one chunk
BlobA == [i \in 1..(CHUNK_SIZE + 1) |-> i]
BlobB == <<10>>
BlobC == <<20>>
Blobs == {BlobA, BlobB, BlobC}
Timestamps == 1..MaxTimestamp

Min(a, b) == IF a < b THEN a ELSE b

\* BlobChunk::split_blob_into_chunks, from the byte offset start on
RECURSIVE split_blob_into_chunks(_, _)
split_blob_into_chunks(blob, start) ==
    IF start < Len(blob)
    THEN LET end == Min(start + CHUNK_SIZE, Len(blob))
         IN <<SubSeq(blob, start + 1, end)>>
               \o split_blob_into_chunks(blob, start + CHUNK_SIZE)
    ELSE <<>>

\* a generate_chunks that gives each chunk the length of its own data as total
generate_chunks_own_total(blob, digest, timestamp) ==
    LET data_slice == split_blob_into_chunks(blob, 0)
    IN [i \in 1..Len(data_slice) |->
           [index |-> i - 1, digest |-> digest, timestamp |-> timestamp,
            total |-> Len(data_slice[i]), data |-> data_slice[i]]]

\* BlobChunk::generate_chunks; index is zero based
generate_chunks(blob, digest, timestamp) ==
    LET data_slice == split_blob_into_chunks(blob, 0)
    IN [i \in 1..Len(data_slice) |->
           [index |-> i - 1, digest |-> digest, timestamp |-> timestamp,
            total |-> Len(blob), data |-> data_slice[i]]]

\* the chunks a client sends for the blobs
ClientChunks ==
    UNION {SeqToSet(generate_chunks(blob, Sha256(blob), timestamp)) :
              blob \in Blobs, timestamp \in Timestamps}

\* chunks that carry the digest of another blob
ForgedChunks ==
    {[chunk EXCEPT !.digest = Sha256(blob)] : chunk \in ClientChunks, blob \in Blobs}
        \ ClientChunks

\* the last index of the chunks of blob
LastIndex(blob) == Len(split_blob_into_chunks(blob, 0)) - 1

StorageConfigDefault ==
    [owner |-> Owner, signature_canister |-> "signature_canister",
     chunk_size |-> CHUNK_SIZE,
     query_response_size |-> QUERY_RESPONSE_SIZE,
     canister_storage_threshold |-> CANISTER_THRESHOLD]

\* values an owner may put in canister_storage_threshold through update_config
Thresholds == {1, CANISTER_THRESHOLD}

\* a check that lets every caller through
check_caller_any(c) == TRUE

check_caller(c) == c = DACONFIG.owner

blob_exist(blobs, hexed_digest) == hexed_digest \in DOMAIN blobs

\* Ord for BlobId compares the timestamps only
is_less(a, b) == a.timestamp < b.timestamp

\* StableMinHeap::push: the item bubbles up from the last place of the array;
\* i is zero based
RECURSIVE bubble_up(_, _, _)
bubble_up(heap, i, item) ==
    IF i > 0 /\ is_less(item, heap[((i - 1) \div 2) + 1])
    THEN bubble_up([heap EXCEPT ![i + 1] = heap[((i - 1) \div 2) + 1]],
                   (i - 1) \div 2, item)
    ELSE [heap EXCEPT ![i + 1] = item]

HeapPush(heap, item) == bubble_up(Append(heap, item), Len(heap), item)

\* StableMinHeap::pop: the last item takes the root and bubbles down
RECURSIVE bubble_down(_, _, _)
bubble_down(heap, i, item) ==
    LET n == Len(heap)
        l == 2 * i + 1
        r == l + 1
        m == IF n <= r THEN l
             ELSE IF is_less(heap[l + 1], heap[r + 1]) THEN l ELSE r
    IN IF n <= l THEN [heap EXCEPT ![i + 1] = item]
       ELSE IF is_less(heap[m + 1], item)
            THEN bubble_down([heap EXCEPT ![i + 1] = heap[m + 1]], m, item)
            ELSE [heap EXCEPT ![i + 1] = item]

HeapPop(heap) ==
    IF Len(heap) = 0 THEN [item |-> None, heap |-> heap]
    ELSE IF Len(heap) = 1 THEN [item |-> Some(heap[1]), heap |-> <<>>]
    ELSE [item |-> Some(heap[1]),
          heap |-> bubble_down(SubSeq(heap, 1, Len(heap) - 1), 0, heap[Len(heap)])]

\* insert_to_time_heap: push, then pop when the heap is longer than the
\* constant CANISTER_THRESHOLD
insert_to_time_heap(heap, digest, timestamp) ==
    LET pushed == HeapPush(heap, [digest |-> digest, timestamp |-> timestamp])
        expired_item == HeapPop(pushed)
    IN IF Len(pushed) > CANISTER_THRESHOLD
       THEN [heap |-> expired_item.heap, expired |-> expired_item.item]
       ELSE [heap |-> pushed, expired |-> None]

\* remove_expired_blob_from_map: the blob entry of the popped id is deleted
remove_expired_blob_from_map(blobs, digest) == MapRemove(blobs, {HexEncode(digest)})

\* update_digest: the slice is fed to the hasher of the key, unless the stored
\* bytes are longer than index * chunk_size
update_digest(blobs, temp, map_key, index, slice) ==
    LET stored == IF map_key \in DOMAIN blobs THEN Len(blobs[map_key]) ELSE 0
    IN IF stored > index * DACONFIG.chunk_size THEN temp
       ELSE IF map_key \in DOMAIN temp
            THEN MapInsert(temp, map_key, temp[map_key] \o slice)
            ELSE MapInsert(temp, map_key, slice)

\* check_digest: the hasher of the key is removed and finalized
check_digest(temp, map_key, digest) ==
    IF map_key \in DOMAIN temp
    THEN [temp |-> MapRemove(temp, {map_key}), ok |-> Sha256(temp[map_key]) = digest]
    ELSE [temp |-> temp, ok |-> FALSE]

\* insert_to_store_map: a zero-filled buffer of total bytes is allocated for a
\* new key, data is written at [index * chunk_size, end), and the result tells
\* whether end reached total; a range outside the buffer or of another length
\* than data panics
insert_to_store_map(blobs, map_key, index, total, data) ==
    LET buffer == IF map_key \in DOMAIN blobs THEN blobs[map_key]
                  ELSE [i \in 1..total |-> 0]
        start == index * DACONFIG.chunk_size
        end == Min(start + DACONFIG.chunk_size, total)
    IN IF start > end \/ end > Len(buffer) \/ Len(data) # end - start
       THEN [trap |-> TRUE, blobs |-> blobs, complete |-> FALSE]
       ELSE [trap |-> FALSE,
             blobs |-> MapInsert(blobs, map_key,
                          [i \in 1..Len(buffer) |->
                              IF i > start /\ i <= end THEN data[i - start]
                              ELSE buffer[i]]),
             complete |-> end = total]

\* the body of save_blob for a caller that passed check_caller; assembled is
\* the buffer insert_to_store_map found complete, None when it did not
SaveBlobResult(chunk) ==
    LET hexed_digest == HexEncode(chunk.digest)
        h == IF ~blob_exist(BLOBS, hexed_digest)
             THEN insert_to_time_heap(TIMEHEAP, chunk.digest, chunk.timestamp)
             ELSE [heap |-> TIMEHEAP, expired |-> None]
        blobs1 == IF h.expired # None
                  THEN remove_expired_blob_from_map(BLOBS, h.expired[1].digest)
                  ELSE BLOBS
        temp1 == update_digest(blobs1, TEMP_DIGEST_STATE, hexed_digest,
                               chunk.index, chunk.data)
        s == insert_to_store_map(blobs1, hexed_digest, chunk.index, chunk.total,
                                 chunk.data)
        c == check_digest(temp1, hexed_digest, chunk.digest)
    IN IF s.trap
       THEN [result |-> "Trap", blobs |-> BLOBS, heap |-> TIMEHEAP,
             temp |-> TEMP_DIGEST_STATE, notify |-> {}, popped |-> FALSE,
             assembled |-> None]
       ELSE IF ~s.complete
       THEN [result |-> "Ok", blobs |-> s.blobs, heap |-> h.heap,
             temp |-> temp1, notify |-> {}, popped |-> h.expired # None,
             assembled |-> None]
       ELSE IF ~c.ok
       THEN [result |-> "Err", blobs |-> MapRemove(s.blobs, {hexed_digest}),
             heap |-> h.heap, temp |-> c.temp, notify |-> {},
             popped |-> h.expired # None,
             assembled |-> Some(s.blobs[hexed_digest])]
       ELSE [result |-> "Ok", blobs |-> s.blobs, heap |-> h.heap,
             temp |-> c.temp, notify |-> {chunk.digest},
             popped |-> h.expired # None,
             assembled |-> Some(s.blobs[hexed_digest])]

\* the query get_blob: the first window of the stored bytes
get_blob(blobs, digest) ==
    LET map_key == HexEncode(digest)
        size == DACONFIG.query_response_size
    IN IF map_key \notin DOMAIN blobs THEN [ok |-> TRUE, data |-> <<>>, next |-> None]
       ELSE IF Len(blobs[map_key]) > size
       THEN [ok |-> TRUE, data |-> SubSeq(blobs[map_key], 1, size), next |-> Some(1)]
       ELSE [ok |-> TRUE, data |-> blobs[map_key], next |-> None]

\* the query get_blob_with_index: window index of the stored bytes; ok = FALSE
\* stands for the panic of a slice that starts behind the end
get_blob_with_index(blobs, digest, index) ==
    LET map_key == HexEncode(digest)
        size == DACONFIG.query_response_size
    IN IF map_key \notin DOMAIN blobs THEN [ok |-> TRUE, data |-> <<>>, next |-> None]
       ELSE IF Len(blobs[map_key]) > size * (index + 1)
       THEN [ok |-> TRUE,
             data |-> SubSeq(blobs[map_key], size * index + 1, size * (index + 1)),
             next |-> Some(index + 1)]
       ELSE IF size * index > Len(blobs[map_key])
       THEN [ok |-> FALSE, data |-> <<>>, next |-> None]
       ELSE [ok |-> TRUE,
             data |-> SubSeq(blobs[map_key], size * index + 1, Len(blobs[map_key])),
             next |-> None]

StorageInit ==
    /\ DACONFIG = StorageConfigDefault
    /\ BLOBS = EmptyMap
    /\ TIMEHEAP = <<>>
    /\ TEMP_DIGEST_STATE = EmptyMap
    /\ notified = {}
    /\ uploaded = [blob \in Blobs |-> {}]
    /\ popped = FALSE

\* a trapped update call: the canister's state is rolled back
StorageTrap == UNCHANGED vars

\* what a save_blob call that ended with the result r leaves behind
SaveBlobState(r) ==
    /\ r.result # "Trap"
    /\ \A k \in DOMAIN r.temp : Len(r.temp[k]) <= MaxHashed
    /\ BLOBS' = r.blobs
    /\ TIMEHEAP' = r.heap
    /\ TEMP_DIGEST_STATE' = r.temp
    /\ notified' = notified \cup r.notify
    /\ UNCHANGED <<DACONFIG, signerVars, clientVars>>

\* save_blob by a caller that is not the owner, whatever the chunk
SaveBlobRejected(caller) ==
    /\ ~check_caller(caller)
    /\ StorageTrap

\* save_blob by the owner
SaveBlob(caller, chunk) ==
    /\ check_caller(caller)
    /\ LET r == SaveBlobResult(chunk)
       IN IF r.result = "Trap" THEN StorageTrap
          ELSE SaveBlobState(r) /\ UNCHANGED <<uploaded, popped>>

\* save_blob by the owner with a chunk of generate_chunks
UploadChunk(chunk) ==
    /\ check_caller(Owner)
    /\ LET r == SaveBlobResult(chunk)
       IN /\ SaveBlobState(r)
          /\ uploaded' = [blob \in Blobs |->
                             IF chunk.digest = Sha256(blob)
                             THEN uploaded[blob] \cup {chunk.index}
                             ELSE uploaded[blob]]
          /\ popped' = (popped \/ r.popped)

\* notify_generate_confirmation called as an update method
NotifyGenerateConfirmation(digest) ==
    /\ notified' = IF HexEncode(digest) \in DOMAIN BLOBS
                   THEN notified \cup {digest} ELSE notified
    /\ UNCHANGED <<DACONFIG, BLOBS, TIMEHEAP, TEMP_DIGEST_STATE, uploaded,
                   popped, signerVars, clientVars>>

\* update_config
StorageUpdateConfig(caller, config) ==
    IF ~check_caller(caller) THEN StorageTrap
    ELSE /\ DACONFIG' = config
         /\ UNCHANGED <<BLOBS, TIMEHEAP, TEMP_DIGEST_STATE, notified, uploaded,
                        popped, signerVars, clientVars>>

StorageNext ==
    \/ \E caller \in Callers : SaveBlobRejected(caller)
    \/ \E caller \in Callers, chunk \in ClientChunks \cup ForgedChunks :
          SaveBlob(caller, chunk)
    \/ \E blob \in Blobs : NotifyGenerateConfirmation(Sha256(blob))
    \/ \E caller \in Callers, threshold \in Thresholds :
          StorageUpdateConfig(caller,
              [DACONFIG EXCEPT !.canister_storage_threshold = threshold])

(***************************************************************************)
(* Client read path: get_blob_from_canisters spawns one                    *)
(* get_blob_from_canister per host canister of the key; the replies of the *)
(* canisters are arbitrary.                                                *)
(***************************************************************************)
REPLICA_NUM == 1

\* routing_info.host_canisters of the key
Hosts == {"host_a", "host_b"}

\* SystemTime::now() when get_blob_from_canisters runs
CurrentTimestamp == 1

\* the blobs whose keys are read, and the data a canister may put in a reply
ReadBlobs == {<<1, 2>>, <<2, 1, 2>>}
SliceData == {<<>>, <<1>>, <<2>>, <<1, 2>>}

BlobKeys ==
    [digest : {Sha256(blob) : blob \in ReadBlobs},
     expiry_timestamp : 0..MaxTimestamp]

\* replies of get_blob and get_blob_with_index: an error or a Blob
Replies ==
    [ok : BOOLEAN, data : SliceData,
     next : {None} \cup {Some(i) : i \in 1..MaxWindows}]

\* a check that does not compare the digest
CheckBlobNotEmpty(blob, blob_key) == IF blob = <<>> THEN "Err" ELSE "Ok"

\* the end of get_blob_from_canister, once slice.next is None
CheckBlob(blob, blob_key) ==
    IF blob = <<>> THEN "Err"
    ELSE IF blob_key.digest # Sha256(blob) THEN "Err"
    ELSE "Ok"

\* an expiry check that also rejects a key that expires now
ExpiredInclusive(blob_key, current_timestamp) ==
    blob_key.expiry_timestamp <= current_timestamp

\* the expiry check of get_blob_from_canisters
Expired(blob_key, current_timestamp) ==
    blob_key.expiry_timestamp < current_timestamp

\* the senders of the channel that are alive: the tx of get_blob_from_canisters
\* and the clone of each task that has not ended
Senders == 1 + Cardinality({h \in Hosts : taskPc[h] # "done"})

ReadInit ==
    /\ key \in BlobKeys
    /\ taskPc = [h \in Hosts |-> "idle"]
    /\ taskBlob = [h \in Hosts |-> <<>>]
    /\ taskNext = [h \in Hosts |-> None]
    /\ channel = <<>>
    /\ mainPc = "start"
    /\ returned = None
    /\ verified = <<>>

\* no read is going on
ReadIdle ==
    /\ ReadInit
    /\ key = [digest |-> Sha256(<<1, 2>>), expiry_timestamp |-> 0]

\* get_blob_from_canisters up to its loop: the expiry check and the spawns
ReadStart ==
    /\ mainPc = "start"
    /\ IF Expired(key, CurrentTimestamp)
       THEN mainPc' = "expired" /\ UNCHANGED taskPc
       ELSE mainPc' = "loop" /\ taskPc' = [h \in Hosts |-> "get_blob"]
    /\ UNCHANGED <<key, taskBlob, taskNext, channel, returned, verified,
                   signerVars, storageVars,
                   selectVars, pushVars, writeVars>>

\* a task receives the reply to get_blob or to get_blob_with_index
TaskReply(h, reply) ==
    /\ taskPc[h] \in {"get_blob", "get_blob_with_index"}
    /\ IF ~reply.ok
       THEN /\ taskPc' = [taskPc EXCEPT ![h] = "done"]
            /\ UNCHANGED <<taskBlob, taskNext, verified>>
       ELSE /\ Len(taskBlob[h] \o reply.data) <= MaxReadLen
            /\ taskBlob' = [taskBlob EXCEPT ![h] = @ \o reply.data]
            /\ taskNext' = [taskNext EXCEPT ![h] = reply.next]
            /\ taskPc' = [taskPc EXCEPT ![h] =
                  IF reply.next # None THEN "get_blob_with_index"
                  ELSE IF CheckBlob(taskBlob[h] \o reply.data, key) = "Ok"
                       THEN "send" ELSE "done"]
            /\ verified' = IF taskPc'[h] = "send" THEN Append(verified, h)
                           ELSE verified
    /\ UNCHANGED <<key, channel, mainPc, returned, signerVars, storageVars,
                   selectVars, pushVars, writeVars>>

\* a task that drops its sender without sending its blob
TaskDropsBlob(h) ==
    /\ taskPc[h] = "send"
    /\ taskPc' = [taskPc EXCEPT ![h] = "done"]
    /\ UNCHANGED <<key, taskBlob, taskNext, channel, mainPc, returned, verified,
                   signerVars, storageVars,
                   selectVars, pushVars, writeVars>>

\* a task sends its blob; the send fails once the receiver is dropped
TaskSend(h) ==
    /\ taskPc[h] = "send"
    /\ mainPc # "loop" \/ Len(channel) < REPLICA_NUM
    /\ channel' = IF mainPc = "loop" THEN Append(channel, taskBlob[h]) ELSE channel
    /\ taskPc' = [taskPc EXCEPT ![h] = "done"]
    /\ UNCHANGED <<key, taskBlob, taskNext, mainPc, returned, verified,
                   signerVars, storageVars,
                   selectVars, pushVars, writeVars>>

\* one turn of the loop of get_blob_from_canisters
MainPoll ==
    /\ mainPc = "loop"
    /\ IF channel # <<>>
       THEN /\ returned' = Some(Head(channel))
            /\ mainPc' = "returned"
            /\ channel' = <<>>
       ELSE IF Senders = 0
       THEN mainPc' = "failed" /\ UNCHANGED <<returned, channel>>
       ELSE UNCHANGED <<mainPc, returned, channel>>
    /\ UNCHANGED <<key, taskPc, taskBlob, taskNext, verified,
                   signerVars, storageVars,
                   selectVars, pushVars, writeVars>>

ReadNext ==
    \/ ReadStart
    \/ \E h \in Hosts, reply \in Replies : TaskReply(h, reply)
    \/ \E h \in Hosts : TaskSend(h)
    \/ MainPoll

(***************************************************************************)
(* Client write path: the round-robin choice of the row of                 *)
(* CANISTER_COLLECTIONS.  Concurrent push_blob_to_canisters calls share    *)
(* the index behind a tokio Mutex.                                         *)
(***************************************************************************)
COLLECTION_SIZE == 11

\* the tasks that call push_blob_to_canisters on one ICDA
Pushers == {"push_1", "push_2"}

\* a lock that is granted while another task holds it
lock_granted_always(holder) == TRUE

\* Mutex::lock().await is granted when no task holds the lock
lock_granted(holder) == holder = None

\* ICDA::new: random::<usize>() % COLLECTION_SIZE
SelectInit ==
    /\ seed \in 0..(COLLECTION_SIZE - 1)
    /\ canister_collection_index = seed
    /\ mutex = None
    /\ selPc = [p \in Pushers |-> "idle"]
    /\ selections = <<>>

\* no push_blob_to_canisters call is going on
SelectIdle ==
    /\ SelectInit
    /\ seed = 0

\* self.canister_collection_index.lock().await
SelectLock(p) ==
    /\ selPc[p] = "idle"
    /\ Len(selections) + Cardinality({q \in Pushers : selPc[q] = "locked"})
          < MaxSelections
    /\ lock_granted(mutex)
    /\ mutex' = Some(p)
    /\ selPc' = [selPc EXCEPT ![p] = "locked"]
    /\ UNCHANGED <<canister_collection_index, selections, seed,
                   signerVars, storageVars, readVars, pushVars, writeVars>>

\* cids = CANISTER_COLLECTIONS.get(*index).unwrap(): the row is in the array
SelectRead(p) ==
    /\ selPc[p] = "locked"
    /\ canister_collection_index < COLLECTION_SIZE
    /\ selections' = Append(selections, canister_collection_index)
    /\ selPc' = [selPc EXCEPT ![p] = "read"]
    /\ UNCHANGED <<canister_collection_index, mutex, seed,
                   signerVars, storageVars, readVars, pushVars, writeVars>>

\* *index += 1
SelectIncrement(p) ==
    /\ selPc[p] = "read"
    /\ canister_collection_index' = canister_collection_index + 1
    /\ selPc' = [selPc EXCEPT ![p] = "incremented"]
    /\ UNCHANGED <<mutex, selections, seed,
                   signerVars, storageVars, readVars, pushVars, writeVars>>

\* *index %= COLLECTION_SIZE, and the guard is dropped at the end of the block
SelectWrap(p) ==
    /\ selPc[p] = "incremented"
    /\ canister_collection_index' = canister_collection_index % COLLECTION_SIZE
    /\ mutex' = None
    /\ selPc' = [selPc EXCEPT ![p] = "idle"]
    /\ UNCHANGED <<selections, seed,
                   signerVars, storageVars, readVars, pushVars, writeVars>>

SelectNext ==
    \E p \in Pushers :
        \/ SelectLock(p)
        \/ SelectRead(p)
        \/ SelectIncrement(p)
        \/ SelectWrap(p)

(***************************************************************************)
(* Client write path: the task push_blob_to_canisters spawns for a replica *)
(* sends the chunks with push_chunks_to_canister; the replica is the       *)
(* storage canister above and the client is its owner.                     *)
(***************************************************************************)
\* the while loop of get_blob_from_canister over the windows of one replica
\* whose blobs do not change meanwhile
RECURSIVE ReadWindows(_, _, _, _)
ReadWindows(blobs, digest, slice, blob) ==
    IF ~slice.ok THEN [ok |-> FALSE, blob |-> blob]
    ELSE IF slice.next = None THEN [ok |-> TRUE, blob |-> blob \o slice.data]
    ELSE ReadWindows(blobs, digest,
                     get_blob_with_index(blobs, digest, slice.next[1]),
                     blob \o slice.data)

\* get_blob_from_canister on a replica that holds blobs
get_blob_from_canister(blobs, blob_key) ==
    LET r == ReadWindows(blobs, blob_key.digest, get_blob(blobs, blob_key.digest), <<>>)
    IN IF r.ok /\ CheckBlob(r.blob, blob_key) = "Ok"
       THEN [ok |-> TRUE, blob |-> r.blob]
       ELSE [ok |-> FALSE, blob |-> <<>>]

\* the bytes of the chunks, in the order of the chunks
RECURSIVE JoinChunks(_)
JoinChunks(chunks) ==
    IF chunks = <<>> THEN <<>> ELSE Head(chunks).data \o JoinChunks(Tail(chunks))

\* push_blob_to_canisters: the chunks are generated and the task is spawned
PushStart(blob, timestamp) ==
    /\ pushPc \in {"idle", "done", "failed"}
    /\ pushPc' = "sending"
    /\ pushChunks' = generate_chunks(blob, Sha256(blob), timestamp)
    /\ pushNext' = 1
    /\ pushAttempt' = 0
    /\ rpcFailed' = FALSE
    /\ UNCHANGED <<backup, signerVars, storageVars, readVars, selectVars, writeVars>>

\* format!("backup/chunk_{}_{}.bin", sc.canister_id.to_text(), chunk.index):
\* a file name is the sequence of its pieces, the runs of [a-z0-9-], "_" and
\* ".bin"
SpillFileName(cid, index) == <<"chunk", "_", cid, "_", ToString(index), ".bin">>

\* push_chunks_to_canister after a save_blob that returned Err: the next
\* attempt, or after the third the chunk is written to backup/ and the task
\* bails
PushAttemptFailed ==
    IF pushAttempt = 2
    THEN /\ backup' = MapInsert(backup,
                          SpillFileName("hxctj-oiaaa-aaaap-qhltq-cai",
                                        pushChunks[pushNext].index),
                          pushChunks[pushNext])
         /\ pushPc' = "failed"
         /\ UNCHANGED <<pushNext, pushAttempt>>
    ELSE /\ pushAttempt' = pushAttempt + 1
         /\ UNCHANGED <<pushPc, pushNext, backup>>

\* sc.save_blob(chunk).await answered by the replica
PushSave ==
    /\ pushPc = "sending"
    /\ LET r == IF check_caller(Owner) THEN SaveBlobResult(pushChunks[pushNext])
                ELSE [result |-> "Trap", blobs |-> BLOBS, heap |-> TIMEHEAP,
                      temp |-> TEMP_DIGEST_STATE, notify |-> {}, popped |-> FALSE,
                      assembled |-> None]
       IN /\ \A k \in DOMAIN r.temp : Len(r.temp[k]) <= MaxHashed
          /\ BLOBS' = r.blobs
          /\ TIMEHEAP' = r.heap
          /\ TEMP_DIGEST_STATE' = r.temp
          /\ notified' = notified \cup r.notify
          /\ IF r.result = "Ok"
             THEN /\ pushAttempt' = 0
                  /\ IF pushNext = Len(pushChunks)
                     THEN pushPc' = "done" /\ UNCHANGED pushNext
                     ELSE pushNext' = pushNext + 1 /\ UNCHANGED pushPc
                  /\ UNCHANGED backup
             ELSE PushAttemptFailed
    /\ UNCHANGED <<pushChunks, rpcFailed, DACONFIG, uploaded, popped,
                   signerVars, readVars, selectVars, writeVars>>

\* sc.save_blob(chunk).await fails before the replica runs the call
PushRpcFails ==
    /\ pushPc = "sending"
    /\ PushAttemptFailed
    /\ rpcFailed' = TRUE
    /\ UNCHANGED <<pushChunks, signerVars, storageVars, readVars, selectVars, writeVars>>

PushNext ==
    \/ \E blob \in Blobs, timestamp \in Timestamps : PushStart(blob, timestamp)
    \/ PushSave
    \/ PushRpcFails

\* no push task is running and backup/ is empty
PushIdle ==
    /\ pushPc = "idle"
    /\ pushChunks = <<>>
    /\ pushNext = 0
    /\ pushAttempt = 0
    /\ backup = EmptyMap
    /\ rpcFailed = FALSE

(***************************************************************************)
(* Client write path: push_blob_to_canisters over the replicas of a row of *)
(* CANISTER_COLLECTIONS, and the ReUploader over backup/.  A replica       *)
(* accepts or rejects each save_blob call as it likes.                     *)
(***************************************************************************)
CanisterIds ==
    {"hxctj-oiaaa-aaaap-qhltq-cai", "v3y75-6iaaa-aaaak-qikaa-cai",
     "nnw5b-eqaaa-aaaak-qiqaq-cai"}

\* the table of the rows, for rows of two replicas (REPLICA_NUM = 2, as in
\* server/ and client/; icda-core is built with rows of one)
CANISTER_COLLECTIONS ==
    [index \in 0..(COLLECTION_SIZE - 1) |->
        IF index % 2 = 0
        THEN <<"hxctj-oiaaa-aaaap-qhltq-cai", "v3y75-6iaaa-aaaak-qikaa-cai">>
        ELSE <<"v3y75-6iaaa-aaaak-qikaa-cai", "nnw5b-eqaaa-aaaak-qiqaq-cai">>]

\* a key whose expiry is the write timestamp itself
NewBlobKeyNoLiveTime(blob, timestamp, routing_canisters) ==
    [digest |-> Sha256(blob),
     expiry_timestamp |-> timestamp,
     routing_info |-> [total_size |-> Len(blob),
                       host_canisters |-> routing_canisters]]

\* the BlobKey push_blob_to_canisters returns
NewBlobKey(blob, timestamp, routing_canisters) ==
    [digest |-> Sha256(blob),
     expiry_timestamp |-> timestamp + BLOB_LIVE_TIME,
     routing_info |-> [total_size |-> Len(blob),
                       host_canisters |-> routing_canisters]]

\* ReUploader::generate_backup_file_name, nanos being SystemTime::now()
generate_backup_file_name(canister_id, data_type, nanos) ==
    <<canister_id, "_", data_type, "_", ToString(nanos), ".bin">>

\* ReUploader::parse_canister_id_from_file_name: the first match of
\* ([a-z0-9-]+)_chunk_\d+\.bin in the name, and Principal::from_text of its
\* group; ok = FALSE stands for the panic of an expect
parse_canister_id_from_file_name(name) ==
    LET digits == {ToString(n) : n \in 0..9}
        matches == {i \in 1..(Len(name) - 5) :
                       /\ name[i] \notin {"_", ".bin"}
                       /\ name[i + 1] = "_"
                       /\ name[i + 2] = "chunk"
                       /\ name[i + 3] = "_"
                       /\ name[i + 4] \in digits
                       /\ name[i + 5] = ".bin"}
        first == CHOOSE i \in matches : \A j \in matches : i <= j
    IN IF matches = {} THEN [ok |-> FALSE, cid |-> ""]
       ELSE IF name[first] \notin CanisterIds THEN [ok |-> FALSE, cid |-> ""]
       ELSE [ok |-> TRUE, cid |-> name[first]]

\* a task that goes on with the next chunk after the third failure
AfterFailureSkips(task) ==
    IF task.attempt = 2
    THEN [task EXCEPT !.next = @ + 1, !.attempt = 0]
    ELSE [task EXCEPT !.attempt = @ + 1]

\* push_chunks_to_canister after a save_blob that returned Err: the next
\* attempt, or the bail after the third
AfterFailure(task) ==
    IF task.attempt = 2
    THEN [task EXCEPT !.pc = "failed"]
    ELSE [task EXCEPT !.attempt = @ + 1]

\* a failure of one task that ends the tasks of the whole row
TasksAfterAbortsAll(tasks, r, task) ==
    IF task.pc = "failed"
    THEN [x \in DOMAIN tasks |->
             IF tasks[x].pc = "sending" \/ x = r
             THEN [tasks[x] EXCEPT !.pc = "failed"] ELSE tasks[x]]
    ELSE [tasks EXCEPT ![r] = task]

\* the tasks of the row once the task of replica r has moved on: each task
\* is spawned on its own and owns its state
TasksAfter(tasks, r, task) == [tasks EXCEPT ![r] = task]

IdleTask == [pc |-> "idle", next |-> 0, attempt |-> 0]

\* no push_blob_to_canisters call was made and no reupload task runs
WriteIdle ==
    /\ writeKey = None
    /\ writeTasks = [r \in CanisterIds |-> IdleTask]
    /\ sendLog = [r \in CanisterIds |-> <<>>]
    /\ writeCall = None
    /\ reupTasks = EmptyMap

\* push_blob_to_canisters: the row is chosen, a task is spawned for each
\* replica of the row, and the key is returned; one call at a time
WriteStart(blob, timestamp) ==
    /\ Len(selections) < MaxPushes
    /\ \A r \in CanisterIds : writeTasks[r].pc # "sending"
    /\ lock_granted(mutex)
    /\ canister_collection_index < COLLECTION_SIZE
    /\ LET cids == CANISTER_COLLECTIONS[canister_collection_index]
           blob_chunks == generate_chunks(blob, Sha256(blob), timestamp)
       IN /\ selections' = Append(selections, canister_collection_index)
          /\ canister_collection_index' =
                (canister_collection_index + 1) % COLLECTION_SIZE
          /\ pushChunks' = blob_chunks
          /\ writeTasks' = [r \in CanisterIds |->
                               IF r \notin SeqToSet(cids) THEN IdleTask
                               ELSE [pc |-> IF blob_chunks = <<>> THEN "done"
                                            ELSE "sending",
                                     next |-> 1, attempt |-> 0]]
          /\ sendLog' = [r \in CanisterIds |-> <<>>]
          /\ writeKey' = Some(NewBlobKey(blob, timestamp, cids))
          /\ writeCall' = Some([blob |-> blob, timestamp |-> timestamp])
    /\ UNCHANGED <<mutex, selPc, seed, pushPc, pushNext, pushAttempt, backup,
                   rpcFailed, reupTasks, signerVars, storageVars, readVars>>

\* sc.save_blob(chunk).await of the task of replica r ends with Ok or Err
WriteSend(r, ok) ==
    /\ writeTasks[r].pc = "sending"
    /\ LET task == writeTasks[r]
           chunk == pushChunks[task.next]
           after == IF ~ok THEN AfterFailure(task)
                    ELSE IF task.next = Len(pushChunks)
                    THEN [task EXCEPT !.pc = "done", !.attempt = 0]
                    ELSE [task EXCEPT !.next = @ + 1, !.attempt = 0]
       IN /\ sendLog' = [sendLog EXCEPT
                            ![r] = Append(@, [index |-> chunk.index, ok |-> ok])]
          /\ writeTasks' = TasksAfter(writeTasks, r, after)
          /\ backup' = IF ~ok /\ task.attempt = 2
                       THEN MapInsert(backup, SpillFileName(r, chunk.index),
                                      [bincode |-> chunk])
                       ELSE backup
    /\ UNCHANGED <<writeKey, writeCall, reupTasks, pushPc, pushChunks, pushNext,
                   pushAttempt, rpcFailed, signerVars, storageVars, readVars,
                   selectVars>>

\* ReUploader::save of a chunk under a name of generate_backup_file_name,
\* once
ReUploaderSave(canister_id, chunk, nanos) ==
    /\ \A name \in DOMAIN backup \cup DOMAIN reupTasks : name[1] = "chunk"
    /\ backup' = MapInsert(backup,
                           generate_backup_file_name(canister_id, "chunk", nanos),
                           [bincode |-> chunk])
    /\ UNCHANGED <<writeVars, pushPc, pushChunks, pushNext, pushAttempt,
                   rpcFailed, signerVars, storageVars, readVars, selectVars>>

\* the uploader finds a file of backup/ and spawns reupload, which reads the
\* file and parses its name
Reupload(name) ==
    /\ name \in DOMAIN backup \ DOMAIN reupTasks
    /\ LET parsed == parse_canister_id_from_file_name(name)
       IN reupTasks' =
             MapInsert(reupTasks, name,
                 IF parsed.ok
                 THEN [pc |-> "sending", cid |-> parsed.cid,
                       chunk |-> Some(backup[name].bincode), sent |-> <<>>]
                 ELSE [pc |-> "panicked", cid |-> "", chunk |-> None,
                       sent |-> <<>>])
    /\ UNCHANGED <<writeKey, writeTasks, sendLog, writeCall, pushVars,
                   signerVars, storageVars, readVars, selectVars>>

\* one turn of the loop of reupload: Ok removes the file and ends the task,
\* Err is followed by the next turn
ReuploadSend(name, ok) ==
    /\ name \in DOMAIN reupTasks
    /\ reupTasks[name].pc = "sending"
    /\ ok \/ Len(reupTasks[name].sent) < MaxResend
    /\ reupTasks' = MapInsert(reupTasks, name,
                        [reupTasks[name] EXCEPT
                            !.sent = Append(@, reupTasks[name].cid),
                            !.pc = IF ok THEN "done" ELSE "sending"])
    /\ backup' = IF ok THEN MapRemove(backup, {name}) ELSE backup
    /\ UNCHANGED <<writeKey, writeTasks, sendLog, writeCall, pushPc, pushChunks,
                   pushNext, pushAttempt, rpcFailed, signerVars, storageVars,
                   readVars, selectVars>>

WriteNext ==
    \/ \E blob \in {BlobA, BlobB} : WriteStart(blob, Len(selections) + 1)
    \/ \E r \in CanisterIds, ok \in BOOLEAN : WriteSend(r, ok)
    \/ \E canister_id \in SeqToSet(CANISTER_COLLECTIONS[0]) :
          ReUploaderSave(canister_id, generate_chunks(BlobC, Sha256(BlobC), 1)[1], 1)
    \/ \E name \in DOMAIN backup : Reupload(name)
    \/ \E name \in DOMAIN reupTasks, ok \in BOOLEAN : ReuploadSend(name, ok)

(***************************************************************************)
(* Specifications.                                                         *)
(***************************************************************************)
InitSigner == SignerInit /\ StorageInit /\ ReadIdle /\ SelectIdle /\ PushIdle /\ WriteIdle

SpecSigner == InitSigner /\ [][SignerNext]_vars

InitStorage == SignerInit /\ StorageInit /\ ReadIdle /\ SelectIdle /\ PushIdle /\ WriteIdle

SpecStorage == InitStorage /\ [][StorageNext]_vars

\* a client uploads the blobs, the chunks in any order and any number of times
UploadNext == \E chunk \in ClientChunks : UploadChunk(chunk)

InitUpload == SignerInit /\ StorageInit /\ ReadIdle /\ SelectIdle /\ PushIdle /\ WriteIdle

SpecUpload == InitUpload /\ [][UploadNext]_vars

InitRead == SignerInit /\ StorageInit /\ ReadInit /\ SelectIdle /\ PushIdle /\ WriteIdle

SpecRead == InitRead /\ [][ReadNext]_vars

\* the tokio runtime runs every spawned task and the loop of
\* get_blob_from_canisters, and every call of a canister ends with a reply or
\* an error
ReadFairness ==
    /\ WF_vars(MainPoll)
    /\ \A h \in Hosts :
          /\ WF_vars(TaskSend(h))
          /\ WF_vars(\E reply \in Replies : TaskReply(h, reply))

SpecReadFair == SpecRead /\ ReadFairness

InitPush == SignerInit /\ StorageInit /\ ReadIdle /\ SelectIdle /\ PushIdle /\ WriteIdle

SpecPush == InitPush /\ [][PushNext]_vars

InitWrite == SignerInit /\ StorageInit /\ ReadIdle /\ SelectIdle /\ PushIdle /\ WriteIdle

SpecWrite == InitWrite /\ [][WriteNext]_vars

\* the tokio runtime runs every spawned task: the uploader spawns reupload
\* for every file it finds, a reupload task that is in its loop gets its
\* call accepted by the replica, and the save_blob call of a write task is
\* answered
WriteFairness ==
    \A name \in {SpillFileName(r, i) : r \in CanisterIds, i \in 0..LastIndex(BlobA)}
                  \cup {generate_backup_file_name(r, "chunk", 1) : r \in CanisterIds} :
        /\ WF_vars(Reupload(name))
        /\ WF_vars(ReuploadSend(name, TRUE))
        /\ \A r \in CanisterIds : WF_vars(\E ok \in BOOLEAN : WriteSend(r, ok))

SpecWriteFair == SpecWrite /\ WriteFairness

InitSelect == SignerInit /\ StorageInit /\ ReadIdle /\ SelectInit /\ PushIdle /\ WriteIdle

SpecSelect == InitSelect /\ [][SelectNext]_vars

(***************************************************************************)
(* Properties of the signature canister and of the verifier.               *)
(***************************************************************************)
Status(digest) == get_confirmation(digest).status

\* the number of places digest takes in the nodes of the stored batches
Occurrences(digest) ==
    Cardinality({bi \in {<<b, i>> : b \in DOMAIN BATCH_CONFIRMATION, i \in 1..MaxDigest} :
                    /\ bi[2] <= Len(BATCH_CONFIRMATION[bi[1]].nodes)
                    /\ BATCH_CONFIRMATION[bi[1]].nodes[bi[2]] = digest})

\* the digests of the closed batches whose sign task is in flight
AwaitingSign == UNION {SeqToSet(task.confirmation.nodes) : task \in signTasks}

IndexedTo(batch_index) ==
    {d \in DOMAIN INDEX_MAP \ {CURRENT_INDEX_KEY} : INDEX_MAP[d] = batch_index}

\* C1: whenever get_confirmation(D) returns Confirmed(c), verify_confirmation(c)
\* returns Valid and c.proof.leaf_digest = D
C1_ConfirmationSound ==
    \A d \in Digests :
        LET r == get_confirmation(d)
        IN r.status = "Confirmed" =>
              /\ verify_confirmation(r.confirmation) = "Valid"
              /\ r.confirmation.proof.leaf_digest = d

\* C11: get_confirmation(D) is Invalid when D is not indexed; when it is
\* Confirmed(c), c.root is the stored root of D's batch and the Merkle root of
\* the nodes of that batch, c.signature is the signature of that batch, and
\* c.proof.leaf_index is the number of nodes the batch held when D was pushed
C11_ConfirmationOfBatch ==
    \A d \in Digests :
        LET r == get_confirmation(d)
            c == r.confirmation
        IN /\ d \notin DOMAIN INDEX_MAP => r.status = "Invalid"
           /\ r.status = "Confirmed" =>
                 LET batch == BATCH_CONFIRMATION[INDEX_MAP[d]]
                 IN /\ c.root = batch.root
                    /\ c.root = MerkleRoot(batch.nodes)
                    /\ c.signature = batch.signature[1]
                    /\ c.proof.leaf_index = placedAt[d]

\* the 7th of 12 digests of a signed batch is confirmed with leaf_index 6
C11_Witness ==
    LET r == get_confirmation(7)
    IN /\ r.status = "Confirmed"
       /\ Len(BATCH_CONFIRMATION[INDEX_MAP[7]].nodes) = 12
       /\ r.confirmation.proof.leaf_index = 6
       /\ r.confirmation.root = MerkleRoot(BATCH_CONFIRMATION[INDEX_MAP[7]].nodes)

\* C12: an insert_digest by a caller outside da_canisters and an update_config
\* by a caller other than the owner change neither INDEX_MAP, nor
\* BATCH_CONFIRMATION, nor the config, nor the sign tasks; a caller in
\* da_canisters passes check_updater and the owner passes check_owner
C12_SignerAuthorization ==
    /\ [](\A caller \in Callers :
             /\ caller \in CONFIRMATION_CONFIG.da_canisters => check_updater(caller)
             /\ caller = CONFIRMATION_CONFIG.owner => check_owner(caller))
    /\ [][\A caller \in Callers :
             /\ (caller \notin CONFIRMATION_CONFIG.da_canisters
                    /\ InsertDigestBy(caller))
                  => UNCHANGED <<INDEX_MAP, BATCH_CONFIRMATION,
                                 CONFIRMATION_CONFIG, signTasks>>
             /\ (caller # CONFIRMATION_CONFIG.owner
                    /\ SignerUpdateConfigBy(caller))
                  => UNCHANGED <<INDEX_MAP, BATCH_CONFIRMATION,
                                 CONFIRMATION_CONFIG, signTasks>>]_vars

\* the owner has updated the config and an updater has filled a batch, while
\* a call of the stranger would be rejected
C12_Witness ==
    /\ configUpdates >= 1
    /\ CurrentIndex(INDEX_MAP) >= 1
    /\ ~check_updater(Stranger) /\ ~check_owner(Stranger)
    /\ ~check_updater(Owner) /\ ~check_owner(DaCanister)

\* C27: for every digest key of INDEX_MAP (every key but CURRENT_INDEX_KEY),
\* the batch the key maps to is in BATCH_CONFIRMATION and its nodes hold the
\* digest exactly once
C27_IndexedDigestInItsBatch ==
    \A d \in DOMAIN INDEX_MAP \ {CURRENT_INDEX_KEY} :
        /\ INDEX_MAP[d] \in DOMAIN BATCH_CONFIRMATION
        /\ LET nodes == BATCH_CONFIRMATION[INDEX_MAP[d]].nodes
           IN Cardinality({i \in DOMAIN nodes : nodes[i] = d}) = 1

\* a batch was pruned, one of its digests was inserted again, and digests
\* are indexed to a signed batch and to the open batch
C27_Witness ==
    /\ pruned # {}
    /\ \E d \in DOMAIN firstPlaced :
          /\ d \in DOMAIN INDEX_MAP
          /\ INDEX_MAP[d] # firstPlaced[d]
    /\ \E d \in DOMAIN INDEX_MAP \ {CURRENT_INDEX_KEY} :
          BATCH_CONFIRMATION[INDEX_MAP[d]].signature # None
    /\ \E d \in DOMAIN INDEX_MAP \ {CURRENT_INDEX_KEY} :
          INDEX_MAP[d] = CurrentIndex(INDEX_MAP)

\* C28: every batch holds at most confirmation_batch_size nodes, also after
\* update_config calls of the owner; the open batch has no signature; a
\* batch that has a signature holds exactly confirmation_batch_size nodes
\* and its root is the Merkle root of its nodes; and the nodes of a batch
\* change only by growing at the end
C28_BatchShape ==
    /\ [](\A b \in DOMAIN BATCH_CONFIRMATION :
             LET batch == BATCH_CONFIRMATION[b]
                 size == CONFIRMATION_CONFIG.confirmation_batch_size
             IN /\ Len(batch.nodes) <= size
                /\ b = CurrentIndex(INDEX_MAP) => batch.signature = None
                /\ batch.signature # None =>
                      /\ Len(batch.nodes) = size
                      /\ batch.root = MerkleRoot(batch.nodes))
    /\ [][\A b \in DOMAIN BATCH_CONFIRMATION \cap DOMAIN BATCH_CONFIRMATION' :
             /\ Len(BATCH_CONFIRMATION[b].nodes) <= Len(BATCH_CONFIRMATION'[b].nodes)
             /\ BATCH_CONFIRMATION[b].nodes
                   = SubSeq(BATCH_CONFIRMATION'[b].nodes, 1,
                            Len(BATCH_CONFIRMATION[b].nodes))]_vars

\* C29: update_signature is spawned for batch i exactly once, by the
\* insert_digest call that fills batch i: a step spawns a task exactly when
\* it is such a call, the task is for the batch that was open, no two tasks
\* are for the same batch and no task is for a batch that is open or signed
\* already; and a batch that has a signature keeps its nodes, root and
\* signature for as long as it is stored
C29_SealedOnce ==
    /\ [](\A task \in signTasks :
             /\ task.batch_index < CurrentIndex(INDEX_MAP)
             /\ \A other \in signTasks :
                   other.batch_index = task.batch_index => other = task
             /\ task.batch_index \in DOMAIN BATCH_CONFIRMATION =>
                   BATCH_CONFIRMATION[task.batch_index].signature = None)
    /\ [][/\ \A task \in signTasks' \ signTasks :
               /\ task.batch_index = CurrentIndex(INDEX_MAP)
               /\ \E digest \in Digests :
                     /\ InsertDigestNew(DaCanister, digest)
                     /\ InsertResult(digest).closed
           /\ (\E digest \in Digests :
                  /\ InsertDigestNew(DaCanister, digest)
                  /\ InsertResult(digest).closed
                  /\ ~InsertResult(digest).trap)
                => Cardinality(signTasks' \ signTasks) = 1
           /\ \A b \in DOMAIN BATCH_CONFIRMATION \cap DOMAIN BATCH_CONFIRMATION' :
                 BATCH_CONFIRMATION[b].signature # None =>
                    BATCH_CONFIRMATION'[b] = BATCH_CONFIRMATION[b]]_vars

\* one batch is signed while the task of a later batch is in flight
C29_Witness ==
    /\ \E b \in DOMAIN BATCH_CONFIRMATION :
          /\ BATCH_CONFIRMATION[b].signature # None
          /\ \E task \in signTasks : task.batch_index > b
    /\ CurrentIndex(INDEX_MAP) >= 2

C31_OldBatchesEvicted ==
    [][CurrentIndex(INDEX_MAP') # CurrentIndex(INDEX_MAP) =>
          LET live == CONFIRMATION_CONFIG'.confirmation_live_time
              current_open_index == CurrentIndex(INDEX_MAP')
          IN /\ \A b \in DOMAIN BATCH_CONFIRMATION' :
                   ~(b + live < current_open_index)
             /\ \A d \in DOMAIN INDEX_MAP' \ {CURRENT_INDEX_KEY} :
                   ~(INDEX_MAP'[d] + live < current_open_index)]_vars

\* C32: the prune step run at the closure of batch cur removes, when
\* cur > confirmation_live_time, exactly batch cur - confirmation_live_time
\* and index entries of the nodes of that batch, and nothing when
\* cur <= confirmation_live_time; it removes neither CURRENT_INDEX_KEY, nor
\* another batch, nor the index entry of a digest indexed to another batch
C32_PruneFrame ==
    [][\A digest \in Digests :
          (InsertDigestNew(DaCanister, digest) /\ InsertResult(digest).closed
              /\ ~InsertResult(digest).trap) =>
             LET cur == CurrentIndex(INDEX_MAP)
                 live == CONFIRMATION_CONFIG.confirmation_live_time
                 before == MapInsert(INDEX_MAP, digest, cur)
                 gone_batches == DOMAIN BATCH_CONFIRMATION \ DOMAIN BATCH_CONFIRMATION'
                 gone_keys == DOMAIN before \ DOMAIN INDEX_MAP'
             IN /\ CURRENT_INDEX_KEY \in DOMAIN INDEX_MAP'
                /\ cur <= live => gone_batches = {} /\ gone_keys = {}
                /\ cur > live =>
                      /\ gone_batches = {cur - live}
                      /\ gone_keys \subseteq
                            SeqToSet(BATCH_CONFIRMATION[cur - live].nodes)
                      /\ \A d \in SeqToSet(BATCH_CONFIRMATION[cur - live].nodes) :
                            d \notin DOMAIN INDEX_MAP'
                      /\ \A d \in gone_keys : before[d] = cur - live]_vars

\* C37: a batch the prune step has removed never appears in
\* BATCH_CONFIRMATION again.  Every index below current_index was given a
\* batch when its first digest arrived, so the removed batches are the
\* indices below current_index that are not stored
C37_PrunedBatchStaysPruned ==
    [][LET removed == {b \in 0..(CurrentIndex(INDEX_MAP) - 1) :
                          b \notin DOMAIN BATCH_CONFIRMATION}
       IN \A b \in removed : b \notin DOMAIN BATCH_CONFIRMATION']_vars

\* C38: an authorized insert_digest of a digest that is not indexed never
\* aborts, whatever update_config calls of the owner came before: when the
\* prune step computes an index to expire, a batch is stored at that index
C38_InsertNeverAborts ==
    \A digest \in Digests :
        (check_updater(DaCanister) /\ digest \notin DOMAIN INDEX_MAP) =>
            ~InsertResult(digest).trap

\* C3: a digest occurs at most once in the nodes of the stored batches, and an
\* insert_digest of an indexed digest changes neither the index, nor the
\* batches, nor the sign tasks
C3_InsertedAtMostOnce ==
    /\ [](\A d \in Digests : Occurrences(d) <= 1)
    /\ [][(\E caller \in Callers : InsertDigestDuplicate(caller)) =>
             UNCHANGED <<INDEX_MAP, BATCH_CONFIRMATION, signTasks>>]_vars

\* C7: current_index never decreases, and it changes only in an insert_digest
\* call that fills the open batch, which increases it by exactly 1
C7_CurrentIndexMonotonic ==
    [][CurrentIndex(INDEX_MAP') # CurrentIndex(INDEX_MAP) =>
         /\ CurrentIndex(INDEX_MAP') = CurrentIndex(INDEX_MAP) + 1
         /\ \E digest \in Digests :
               /\ InsertDigestNew(DaCanister, digest)
               /\ InsertResult(digest).closed]_vars

C7_Witness == CurrentIndex(INDEX_MAP) >= 2

C9_OpenBatchPending == \A d \in sinceClosure : Status(d) = "Pending"

C9_Witness ==
    /\ CurrentIndex(INDEX_MAP) >= 1
    /\ \E d \in sinceClosure : Status(d) = "Pending"

\* C10 as claimed: the digests of a filled batch are Pending until the sign
\* task completes, and Confirmed once it has completed successfully
C10_Original ==
    /\ [](\A d \in AwaitingSign : Status(d) = "Pending")
    /\ [][\A task \in signTasks :
             SignSucceededTask(task) =>
                \A d \in SeqToSet(task.confirmation.nodes) : Status(d)' = "Confirmed"]_vars

\* C10 as amended: the digests still indexed to a filled batch are Pending
\* until its sign task completes, and Confirmed once it has completed
\* successfully
C10_IndexedPendingThenConfirmed ==
    /\ [](\A task \in signTasks :
             \A d \in IndexedTo(task.batch_index) : Status(d) = "Pending")
    /\ [][\A task \in signTasks :
             SignSucceededTask(task) =>
                \A d \in IndexedTo(task.batch_index) : Status(d)' = "Confirmed"]_vars

C10_Witness ==
    /\ \E task \in signTasks : IndexedTo(task.batch_index) # {}
    /\ \E b \in DOMAIN BATCH_CONFIRMATION :
          /\ BATCH_CONFIRMATION[b].signature # None
          /\ \E d \in IndexedTo(b) : Status(d) = "Confirmed"

(***************************************************************************)
(* Properties of the client read path.                                     *)
(***************************************************************************)
\* C2: whenever get_blob_from_canisters returns Ok(bytes), the SHA-256 of bytes
\* is the digest of the key, whatever the canisters replied
C2_ReturnedBlobMatchesKey ==
    mainPc = "returned" =>
        returned # None /\ Sha256(returned[1]) = key.digest

C2_Witness ==
    /\ mainPc = "returned"
    /\ Sha256(returned[1]) = key.digest
    /\ \E h \in Hosts :
          /\ taskPc[h] = "done"
          /\ taskBlob[h] # <<>>
          /\ Sha256(taskBlob[h]) # key.digest

\* C14: get_blob_from_canisters of a key with expiry_timestamp < now fails as
\* expired and no task calls a canister; a key with expiry_timestamp >= now
\* never fails as expired
C14_ExpiredBeforeAnyCall ==
    /\ (key.expiry_timestamp < CurrentTimestamp /\ mainPc # "start") =>
          /\ mainPc = "expired"
          /\ \A h \in Hosts : taskPc[h] = "idle" /\ taskBlob[h] = <<>>
    /\ key.expiry_timestamp >= CurrentTimestamp => mainPc # "expired"

C14_Witness ==
    /\ mainPc = "expired"
    /\ key.expiry_timestamp = CurrentTimestamp - 1

\* C15: once every task of get_blob_from_canisters has ended without sending
\* a blob, get_blob_from_canisters ends with the failure
C15_AllTasksFailedTerminates ==
    (/\ mainPc = "loop"
     /\ channel = <<>>
     /\ \A h \in Hosts : taskPc[h] = "done") ~> (mainPc = "failed")

\* C16: once the task of one replica has reassembled bytes whose SHA-256 is
\* the digest of the key, get_blob_from_canisters returns, whatever the other
\* replicas reply; what it returns is the buffer of the first task that
\* verified, and its SHA-256 is the digest of the key
C16_FirstVerifiedWins ==
    /\ [](mainPc = "returned" =>
            /\ verified # <<>>
            /\ returned = Some(taskBlob[verified[1]])
            /\ Sha256(returned[1]) = key.digest)
    /\ (verified # <<>>) ~> (mainPc = "returned")

\* the blob was returned although another replica failed or returned bytes
\* that differ from the blob
C16_Witness ==
    /\ mainPc = "returned"
    /\ returned = Some(taskBlob[verified[1]])
    /\ \E h \in Hosts :
          /\ \A i \in DOMAIN verified : verified[i] # h
          /\ taskPc[h] = "done"
          /\ taskBlob[h] # <<>>
          /\ Len(taskBlob[h]) = Len(returned[1])

(***************************************************************************)
(* Properties of the client write path.                                    *)
(***************************************************************************)
\* C17: for any interleaving of the tasks, the k-th read of the round-robin
\* index (k = 0, 1, 2, ...) yields row (seed + k) mod COLLECTION_SIZE, no two
\* of any COLLECTION_SIZE consecutive reads yield the same row, every row read
\* is in [0, COLLECTION_SIZE), and so is the index whenever no task holds the
\* lock
C17_RoundRobinAtomic ==
    /\ \A k \in DOMAIN selections :
          /\ selections[k] = (seed + (k - 1)) % COLLECTION_SIZE
          /\ selections[k] \in 0..(COLLECTION_SIZE - 1)
    /\ \A i, j \in DOMAIN selections :
          (i < j /\ j - i < COLLECTION_SIZE) => selections[i] # selections[j]
    /\ mutex = None => canister_collection_index \in 0..(COLLECTION_SIZE - 1)

\* more than COLLECTION_SIZE rows were read, the index has wrapped, and a
\* task waits for the lock another task holds
C17_Witness ==
    /\ Len(selections) > COLLECTION_SIZE
    /\ selections[Len(selections)] = seed
    /\ \E p, q \in Pushers : mutex = Some(p) /\ q # p /\ selPc[q] = "idle"

\* C18: once the task that pushes a blob B to the replica has ended, and each
\* of its save_blob calls was run and answered by the replica, reading the key
\* of B from the replica yields exactly B
C18_PushedBlobReadsBack ==
    (pushPc \in {"done", "failed"} /\ ~rpcFailed) =>
        get_blob_from_canister(BLOBS, [digest |-> pushChunks[1].digest])
            = [ok |-> TRUE, blob |-> JoinChunks(pushChunks)]

\* C21: the task of a replica sends the chunks in ascending index, a chunk
\* only after the chunk before it was accepted; no chunk is sent more than
\* three times; after the third failure in a row (the calls k, k + 1 and
\* k + 2 of the log) the chunk is in backup/ and the task sends nothing more
C21_SequentialThreeAttempts ==
    \A r \in CanisterIds :
        LET log == sendLog[r]
            ThreeFailures(k) ==
                /\ k + 2 <= Len(log)
                /\ \A j \in k..(k + 2) : ~log[j].ok /\ log[j].index = log[k].index
        IN /\ log # <<>> => log[1].index = 0
           /\ \A k \in 2..Len(log) :
                 IF log[k - 1].ok THEN log[k].index = log[k - 1].index + 1
                 ELSE log[k].index = log[k - 1].index
           /\ \A i \in 0..Len(pushChunks) :
                 Cardinality({k \in DOMAIN log : log[k].index = i}) <= 3
           /\ \A k \in DOMAIN log :
                 ThreeFailures(k) =>
                    /\ k + 2 = Len(log)
                    /\ writeTasks[r].pc = "failed"
                    /\ SpillFileName(r, log[k].index) \in DOMAIN backup
                    /\ backup[SpillFileName(r, log[k].index)].bincode
                          = pushChunks[log[k].index + 1]

\* a task had its first chunk accepted at the second attempt and gave up on
\* the second chunk after three failures
C21_Witness ==
    \E r \in CanisterIds :
        /\ Len(sendLog[r]) = 5
        /\ ~sendLog[r][1].ok /\ sendLog[r][2].ok
        /\ \A j \in 3..5 : ~sendLog[r][j].ok /\ sendLog[r][j].index = 1
        /\ writeTasks[r].pc = "failed"
        /\ SpillFileName(r, 1) \in DOMAIN backup

\* C22: a task fails only through three failures of its own chunk; whatever
\* the other tasks of the row did, a task whose calls were all accepted does
\* not fail and, once it has ended, has delivered every chunk of the blob in
\* order; and the key that was returned stays the key of the call
C22_ReplicaTasksIndependent ==
    /\ \A r \in CanisterIds :
          LET log == sendLog[r]
              n == Len(log)
          IN /\ writeTasks[r].pc = "failed" =>
                   /\ n >= 3
                   /\ \A j \in (n - 2)..n :
                         ~log[j].ok /\ log[j].index = log[n].index
             /\ (writeTasks[r].pc \in {"done", "failed"}
                   /\ \A k \in DOMAIN log : log[k].ok) =>
                   /\ writeTasks[r].pc = "done"
                   /\ log = [k \in 1..Len(pushChunks) |->
                                [index |-> pushChunks[k].index, ok |-> TRUE]]
    /\ writeKey # None =>
          writeKey = Some(NewBlobKey(writeCall[1].blob, writeCall[1].timestamp,
                                     CANISTER_COLLECTIONS[selections[Len(selections)]]))

\* one task of the row has failed and the other has delivered both chunks
C22_Witness ==
    \E r1, r2 \in CanisterIds :
        /\ writeTasks[r1].pc = "failed"
        /\ writeTasks[r2].pc = "done"
        /\ Len(sendLog[r2]) = 2
        /\ \A k \in 1..2 : sendLog[r2][k] = [index |-> k - 1, ok |-> TRUE]
        /\ writeKey[1].routing_info.host_canisters \in {<<r1, r2>>, <<r2, r1>>}

\* C23: every file the write path spills for a replica, and every file saved
\* under a name of generate_backup_file_name for a replica, has a name of the
\* form <replica-id>_chunk_<digits>.bin, and parse_canister_id_from_file_name
\* of the name returns that replica
C23_SpillFileNamesParse ==
    [][\A cid \in CanisterIds :
          (\/ WriteSend(cid, FALSE)
           \/ ReUploaderSave(cid, generate_chunks(BlobC, Sha256(BlobC), 1)[1], 1)) =>
             \A name \in DOMAIN backup' :
                 (name \notin DOMAIN backup \/ backup'[name] # backup[name]) =>
                    /\ Len(name) = 6
                    /\ name[1] \in CanisterIds
                    /\ <<name[2], name[3], name[4], name[6]>>
                          = <<"_", "chunk", "_", ".bin">>
                    /\ name[5] \in {ToString(n) : n \in 0..9}
                    /\ parse_canister_id_from_file_name(name)
                          = [ok |-> TRUE, cid |-> cid]]_vars

\* C24: the reupload task of a spill file sends the chunk of the file to the
\* replica the file name names, and to no other, again and again while the
\* replica rejects it; the file stays in backup/ until that replica has
\* accepted the chunk, and is removed then
C24_ReuploadUntilAccepted ==
    /\ [](\A name \in DOMAIN reupTasks :
             LET task == reupTasks[name]
                 named == CHOOSE cid \in CanisterIds : cid \in SeqToSet(name)
             IN /\ task.pc \in {"sending", "done"}
                /\ \A i \in DOMAIN task.sent : task.sent[i] = named
                /\ task.pc = "sending" =>
                      /\ name \in DOMAIN backup
                      /\ task.chunk = Some(backup[name].bincode))
    /\ [][\A name \in DOMAIN backup :
             /\ name \notin DOMAIN backup' => ReuploadSend(name, TRUE)
             /\ ReuploadSend(name, FALSE) =>
                   name \in DOMAIN backup' /\ reupTasks'[name].pc = "sending"]_vars

\* C26: push_blob_to_canisters has returned its key as soon as it was called,
\* whatever the replicas have answered since, and the key holds the SHA-256
\* of the blob, the length of the blob, the replicas the spawned tasks
\* address, and the timestamp of the call plus BLOB_LIVE_TIME
C26_KeyReturnedAtOnce ==
    writeCall # None =>
        /\ writeKey # None
        /\ writeKey[1].digest = Sha256(writeCall[1].blob)
        /\ writeKey[1].routing_info.total_size = Len(writeCall[1].blob)
        /\ SeqToSet(writeKey[1].routing_info.host_canisters)
              = {r \in CanisterIds : writeTasks[r].pc # "idle"}
        /\ Len(writeKey[1].routing_info.host_canisters)
              = Cardinality({r \in CanisterIds : writeTasks[r].pc # "idle"})
        /\ writeKey[1].expiry_timestamp = writeCall[1].timestamp + BLOB_LIVE_TIME

\* the key of the second call is there while no replica has answered a call
\* of its tasks
C26_Witness ==
    /\ writeKey # None
    /\ writeCall[1].timestamp = 2
    /\ \E r \in CanisterIds : writeTasks[r].pc = "idle"
    /\ \A r \in CanisterIds :
          writeTasks[r].pc # "idle" =>
             writeTasks[r].pc = "sending" /\ sendLog[r] = <<>>

\* C39: a file of backup/ keeps its chunk for as long as it is there: no
\* spill is written over the file of an earlier spill that waits for its
\* reupload
C39_SpillsKeptApart ==
    [][\A name \in DOMAIN backup \cap DOMAIN backup' :
          backup'[name] = backup[name]]_vars

\* C40: when the task of replica r has failed on a chunk of the blob, then,
\* unless a later push_blob_to_canisters call takes the place of this one,
\* every chunk of the blob is eventually accepted by r, from the task or
\* from the reupload of its spill file
C40_SpilledBlobCompletes ==
    \A r \in CanisterIds :
        (writeTasks[r].pc = "failed") ~>
            (\/ writeTasks[r].pc # "failed"
             \/ \A i \in DOMAIN pushChunks :
                   \/ \E j \in DOMAIN sendLog[r] :
                         sendLog[r][j].ok /\ sendLog[r][j].index = pushChunks[i].index
                   \/ \E name \in DOMAIN reupTasks :
                         /\ reupTasks[name].pc = "done"
                         /\ reupTasks[name].cid = r
                         /\ reupTasks[name].chunk = Some(pushChunks[i]))

\* C35: generate_chunks(blob, digest, ts) yields ceil(|blob| / CHUNK_SIZE)
\* chunks with the indices 0, 1, 2, ... in order, each with the digest, the
\* timestamp and total = |blob|, each of CHUNK_SIZE bytes except possibly the
\* last, and their data joined in index order is blob; for the blobs of every
\* length up to two chunks and a byte, and for the chunks of the blob
\* push_blob_to_canisters was called with
C35_ChunksOfBlob ==
    LET ChunksOf(blob, digest, ts, chunks) ==
            /\ Len(chunks) = (Len(blob) + CHUNK_SIZE - 1) \div CHUNK_SIZE
            /\ \A i \in DOMAIN chunks :
                  /\ chunks[i].index = i - 1
                  /\ chunks[i].digest = digest
                  /\ chunks[i].timestamp = ts
                  /\ chunks[i].total = Len(blob)
                  /\ Len(chunks[i].data) >= 1
                  /\ Len(chunks[i].data) <= CHUNK_SIZE
                  /\ i < Len(chunks) => Len(chunks[i].data) = CHUNK_SIZE
            /\ JoinChunks(chunks) = blob
    IN /\ \A n \in 0..(2 * CHUNK_SIZE + 1), ts \in Timestamps :
             LET blob == [i \in 1..n |-> i]
             IN ChunksOf(blob, Sha256(blob), ts,
                         generate_chunks(blob, Sha256(blob), ts))
       /\ writeCall # None =>
             ChunksOf(writeCall[1].blob, Sha256(writeCall[1].blob),
                      writeCall[1].timestamp, pushChunks)

\* push_blob_to_canisters was called with a blob of a chunk and a byte: two
\* chunks, the last of one byte
C35_Witness ==
    /\ writeCall # None
    /\ Len(writeCall[1].blob) = CHUNK_SIZE + 1
    /\ Len(pushChunks) = 2
    /\ Len(pushChunks[1].data) = CHUNK_SIZE
    /\ Len(pushChunks[2].data) = 1
    /\ pushChunks[2].index = 1

(***************************************************************************)
(* Properties of the storage canister.                                     *)
(***************************************************************************)
\* C13: a save_blob by a caller that is not the authorized writer and an
\* update_config by a caller that is not the owner change neither the blob
\* map, nor the retention heap, nor the digest-state map, nor the config, and
\* notify nothing to the signature canister
C13_StorageAuthorization ==
    [][\A caller \in Callers :
          (/\ caller # DACONFIG.owner
           /\ \/ SaveBlobRejected(caller)
              \/ \E chunk \in ClientChunks \cup ForgedChunks : SaveBlob(caller, chunk)
              \/ \E threshold \in Thresholds :
                    StorageUpdateConfig(caller,
                        [DACONFIG EXCEPT !.canister_storage_threshold = threshold]))
            => UNCHANGED <<BLOBS, TIMEHEAP, TEMP_DIGEST_STATE, DACONFIG, notified>>]_vars

\* blobs are stored and awaited, the config was updated, and a call of the
\* stranger or of the allowlisted canister of the signer would be rejected
C13_Witness ==
    /\ BLOBS # EmptyMap
    /\ TEMP_DIGEST_STATE # EmptyMap
    /\ notified # {}
    /\ DACONFIG # StorageConfigDefault
    /\ ~check_caller(Stranger) /\ ~check_caller(DaCanister)

\* C19: a save_blob of a chunk of a blob that the replica holds complete (the
\* stored bytes hash to the digest) returns Ok and leaves the stored bytes and
\* the retention heap as they are
C19_DuplicateOfCompleteIsNoOp ==
    \A chunk \in ClientChunks :
        (/\ HexEncode(chunk.digest) \in DOMAIN BLOBS
         /\ Sha256(BLOBS[HexEncode(chunk.digest)]) = chunk.digest) =>
            LET r == SaveBlobResult(chunk)
            IN /\ r.result = "Ok"
               /\ r.blobs = BLOBS
               /\ r.heap = TIMEHEAP

\* C20: when a save_blob completes the buffer of a digest, then if the SHA-256
\* of the assembled bytes differs from chunk.digest the call returns the
\* error, the buffer is deleted and nothing is notified, and if it matches the
\* call returns Ok, the bytes are stored and exactly that digest is notified
C20_DigestCheckOnCompletion ==
    \A chunk \in ClientChunks \cup ForgedChunks :
        LET r == SaveBlobResult(chunk)
            map_key == HexEncode(chunk.digest)
        IN r.assembled # None =>
              IF Sha256(r.assembled[1]) # chunk.digest
              THEN /\ r.result = "Err"
                   /\ map_key \notin DOMAIN r.blobs
                   /\ r.notify = {}
              ELSE /\ r.result = "Ok"
                   /\ map_key \in DOMAIN r.blobs
                   /\ r.blobs[map_key] = r.assembled[1]
                   /\ r.notify = {chunk.digest}

\* C25: for a stored blob of len bytes and the window size Q, get_blob
\* returns the first min(len, Q) bytes, with next = Some(1) iff len > Q;
\* get_blob_with_index(i) returns the bytes [i * Q, min((i + 1) * Q, len)),
\* with next = Some(i + 1) iff len > (i + 1) * Q; no response holds more than
\* Q bytes; following next from get_blob until None yields the stored bytes;
\* and a digest that is not stored yields empty data and next = None
C25_WindowedRead ==
    \A blob \in Blobs, i \in 0..MaxWindows :
        LET digest == Sha256(blob)
            Q == DACONFIG.query_response_size
            first == get_blob(BLOBS, digest)
            window == get_blob_with_index(BLOBS, digest, i)
            absent == [ok |-> TRUE, data |-> <<>>, next |-> None]
        IN IF HexEncode(digest) \notin DOMAIN BLOBS
           THEN first = absent /\ window = absent
           ELSE LET stored == BLOBS[HexEncode(digest)]
                    len == Len(stored)
                IN /\ first = [ok |-> TRUE,
                               data |-> SubSeq(stored, 1, Min(len, Q)),
                               next |-> IF len > Q THEN Some(1) ELSE None]
                   /\ window = [ok |-> TRUE,
                                data |-> SubSeq(stored, i * Q + 1,
                                                Min((i + 1) * Q, len)),
                                next |-> IF len > (i + 1) * Q THEN Some(i + 1)
                                         ELSE None]
                   /\ Len(first.data) <= Q /\ Len(window.data) <= Q
                   /\ ReadWindows(BLOBS, digest, first, <<>>)
                         = [ok |-> TRUE, blob |-> stored]

\* C33: the retention heap holds at most one entry per digest
C33_OneHeapEntryPerDigest ==
    \A i, j \in DOMAIN TIMEHEAP :
        TIMEHEAP[i].digest = TIMEHEAP[j].digest => i = j

\* C34: a save_blob of the owner for a digest without a buffer pushes its
\* blob id.  When the heap then exceeds canister_storage_threshold, the call
\* leaves the heap without exactly one of its entries, an entry of the least
\* timestamp, and no buffer for the digest of that entry; otherwise the heap
\* is the old heap with the new blob id and every buffer that was stored is
\* stored unchanged
C34_PopOldestOverThreshold ==
    \A chunk \in ClientChunks \cup ForgedChunks :
        LET r == SaveBlobResult(chunk)
            blob_id == [digest |-> chunk.digest, timestamp |-> chunk.timestamp]
            pushed == Append(TIMEHEAP, blob_id)
            Count(heap, e) == Cardinality({i \in DOMAIN heap : heap[i] = e})
        IN (/\ check_caller(Owner)
            /\ ~blob_exist(BLOBS, HexEncode(chunk.digest))
            /\ r.result # "Trap") =>
              IF Len(pushed) > DACONFIG.canister_storage_threshold
              THEN \E e \in SeqToSet(pushed) :
                      /\ \A o \in SeqToSet(pushed) : e.timestamp <= o.timestamp
                      /\ \A o \in SeqToSet(pushed) :
                            Count(r.heap, o) =
                               Count(pushed, o) - (IF o = e THEN 1 ELSE 0)
                      /\ Len(r.heap) = Len(pushed) - 1
                      /\ HexEncode(e.digest) \notin DOMAIN r.blobs
              ELSE /\ \A o \in SeqToSet(pushed) :
                         Count(r.heap, o) = Count(pushed, o)
                   /\ Len(r.heap) = Len(pushed)
                   /\ \A k \in DOMAIN BLOBS :
                         k \in DOMAIN r.blobs /\ r.blobs[k] = BLOBS[k]

\* C36: whenever the replica sends insert_digest(D) to the signature
\* canister, it holds a buffer for D and the bytes of the buffer hash to D
C36_NotifyOnlyVerifiedBlob ==
    [][\A d \in notified' \ notified :
          /\ HexEncode(d) \in DOMAIN BLOBS'
          /\ Sha256(BLOBS'[HexEncode(d)]) = d]_vars

\* C4: after every save_blob call that changes the retention heap, the heap
\* holds at most the configured canister_storage_threshold entries
C4_HeapWithinConfiguredThreshold ==
    [][TIMEHEAP' # TIMEHEAP =>
          Len(TIMEHEAP') <= DACONFIG'.canister_storage_threshold]_vars

\* C5: every digest that has a buffer in the blob map has an entry in the
\* retention heap
C5_StoredBlobsAreInHeap ==
    \A k \in DOMAIN BLOBS :
        \E i \in DOMAIN TIMEHEAP : HexEncode(TIMEHEAP[i].digest) = k

\* C6: once save_blob calls have covered all the chunk indices of a blob, each
\* with the digest of the blob, in any order and with duplicates, and the
\* heap was not popped, the stored bytes are the blob
C6_UploadedBlobIsStored ==
    ~popped =>
        \A blob \in Blobs :
            uploaded[blob] = 0..LastIndex(blob) =>
                /\ HexEncode(Sha256(blob)) \in DOMAIN BLOBS
                /\ BLOBS[HexEncode(Sha256(blob))] = blob

====
